---- MODULE Spec2Model ----
(***************************************************************************)
(* The gesture-capture sensor node of SkyWriter-Assist                     *)
(* (src/src/Capture/gestureCollectorBLE.ino) as a state machine.           *)
(*                                                                         *)
(* The sketch is single threaded.  Its control positions are the calls of  *)
(* BLE.poll() (and of BLE.central() / central.connected(), which poll):    *)
(* only there can the stack run onCommandWritten.  pc names the poll the   *)
(* sketch is standing at by its source line; one node action runs the code *)
(* from one poll to the next.                                              *)
(*                                                                         *)
(* The sketch reads the clock only as a difference from a stored           *)
(* timestamp (millis() - captureStartTime, millis() - tflush), so the      *)
(* model keeps those differences (elapsedTime, sinceFlush): storing        *)
(* millis() in the timestamp sets the difference to 0 and every delay()    *)
(* adds to it.  elapsedTime saturates at ClockCap, beyond which every      *)
(* comparison the sketch makes has the same outcome.                       *)
(***************************************************************************)
EXTENDS Integers, Sequences, FiniteSets, TLC

(***************************************************************************)
(* Program constants                                                       *)
(***************************************************************************)
SAMPLES_PER_CAPTURE == 125
SAMPLE_PERIOD_MS == 20
CMD_IDLE == 0
CMD_START_CAPTURE == 1
CMD_BUSY == 2
STATUS_READY == 0
STATUS_COUNTDOWN_3 == 1
STATUS_COUNTDOWN_2 == 2
STATUS_COUNTDOWN_1 == 3
STATUS_CAPTURING == 4
STATUS_COMPLETE == 5
STATUS_ERROR == 6
\* a chunk size the packing buffer was not sized for
SAMPLES_PER_CHUNK_Four == 3 + 1
SAMPLES_PER_CHUNK == 3
BUFFER_SIZE == 20
KEEPALIVE_CHUNKS == 10
CONNECT_DELAY_MS == 1000
POLL_DELAY_MS == 10
COUNTDOWN_STEP_MS == 1000
BLINK_MS == 100
FLUSH_MS == 60
FLUSH_STEP_MS == 5
MILLI_PER_G == 1000
BYTE_MASK == 255
BYTE_BITS == 8
INT16_MIN == -32768
INT16_MAX == 32767

(***************************************************************************)
(* Bounds of the model                                                     *)
(***************************************************************************)
\* captures the host may request in one run
MaxCaptures == 2
\* connections the host may open in one run
MaxConnections == 2

VARIABLES
    \* the sketch's globals (lines 40-48)
    captureRequested, captureInProgress, currentSampleIndex,
    accelX, accelY, accelZ,
    \* millis() - captureStartTime (line 181), saturated at ClockCap
    elapsedTime,
    \* the poll the sketch is standing at
    pc,
    \* locals of sendDataOverBLE: loop counter, samplesSent, bufferIndex,
    \* millis() - tflush
    chunk, samplesSent, bufferIndex, sinceFlush,
    \* the result of the last IMU.accelerationAvailable() (line 188)
    imuAvailable,
    \* environment: the link, the number of readings the IMU has delivered
    linkUp, imuReads,
    \* what the sketch has written to its characteristics since the current
    \* capture was accepted (before the first capture: since power-up)
    txLog,
    \* history: connections so far, captures accepted so far, whether a
    \* StartCapture was received on the current connection, whether the link
    \* dropped during the current capture, and whether a StartCapture was
    \* received while the current capture was recording
    connCount, captureNo, startOnConn, interrupted, startInRecording,
    \* the ChunkEncoder run for a capacity encC and a chunk size encK: loop
    \* counter, samplesSent, the sample counts of the chunks written so far
    encC, encK, encChunk, encSent, encCounts,
    \* one sample in milli-g and the six bytes it was packed into
    packIn, packOut,
    \* one reading and what becomes of it: the int16 transmitted, its two
    \* bytes, and the reading the host recovers
    convIn, convOut,
    \* the host: the order in which the link delivers the chunks, the chunk
    \* it never delivers, the deliveries so far, the duplicates so far, the
    \* chunks it has lost; the ReassemblyBuffer, whether the Complete status
    \* was observed, the session's state and result, the runCapture calls,
    \* the number of chunks the last failed session had received, and the
    \* captures the node had begun when runCapture was called
    hOrder, hOmit, hPos, hDups, hLost,
    rxBuffer, completeSeen, hState, hResult, hAttempt, hDiscarded, hBase

nodeVars ==
    <<captureRequested, captureInProgress, currentSampleIndex, accelX, accelY,
      accelZ, elapsedTime, pc, chunk, samplesSent, bufferIndex, sinceFlush,
      imuAvailable>>

envVars ==
    <<linkUp, imuReads, txLog>>

histVars ==
    <<connCount, captureNo, startOnConn, interrupted, startInRecording>>

encVars ==
    <<encC, encK, encChunk, encSent, encCounts>>

packVars ==
    <<packIn, packOut>>

convVars ==
    <<convIn, convOut>>

hostVars ==
    <<hOrder, hOmit, hPos, hDups, hLost, rxBuffer, completeSeen, hState,
      hResult, hAttempt, hDiscarded, hBase>>

auxVars ==
    <<encVars, packVars, convVars, hostVars>>

vars ==
    <<nodeVars, envVars, histVars, auxVars>>

(***************************************************************************)
(* Arithmetic helpers                                                      *)
(***************************************************************************)
Min(a, b) ==
    IF a <= b THEN a ELSE b

\* C's integer division and float-to-integer conversion truncate toward zero
TruncDiv(a, b) ==
    IF a >= 0 THEN a \div b ELSE -((-a) \div b)

\* the larger clock values are indistinguishable to the sketch: with
\* elapsedTime >= SAMPLES_PER_CAPTURE * SAMPLE_PERIOD_MS every sample is due
ClockCap ==
    SAMPLES_PER_CAPTURE * SAMPLE_PERIOD_MS

\* delay(ms) seen from the capture clock
Delay(t, ms) ==
    Min(t + ms, ClockCap)

(***************************************************************************)
(* The IMU.  Readings are in tenths of a milli-g (1 g = UnitsPerG);        *)
(* the n-th reading the sensor delivers is Reading(n), a fixed trace of    *)
(* pairwise different values of both signs, so that a misplaced, repeated  *)
(* or stale sample shows in the buffer and in the chunks.                  *)
(***************************************************************************)
UnitsPerG ==
    10 * MILLI_PER_G

Reading(n) ==
    <<791 * n - 40000, 39950 - 791 * n, 99950 - 301 * n>>

(***************************************************************************)
(* ChunkEncoder: sendDataOverBLE lines 228-260                             *)
(***************************************************************************)
\* the division without the rounding up
TotalChunks_Floor(C, K) ==
    C \div K

\* line 229: (C + K - 1) / K
TotalChunks(C, K) ==
    (C + K - 1) \div K

TOTAL_CHUNKS ==
    TotalChunks(SAMPLES_PER_CAPTURE, SAMPLES_PER_CHUNK)

\* line 235: min(K, C - samplesSent)
SamplesInChunk(C, K, sent) ==
    Min(K, C - sent)

\* two's complement bits of the int an int16_t is promoted to
RECURSIVE BitAnd(_, _, _)
BitAnd(a, b, bits) ==
    IF bits = 0
    THEN 0
    ELSE (IF a % 2 = 1 /\ b % 2 = 1 THEN 1 ELSE 0)
         + 2 * BitAnd(a \div 2, b \div 2, bits - 1)

\* v >> n on a signed int: the arithmetic shift of the ARM compiler, each
\* bit of the shift a division by two rounding toward minus infinity
RECURSIVE ShiftRight(_, _)
ShiftRight(v, n) ==
    IF n = 0 THEN v ELSE ShiftRight(v \div 2, n - 1)

\* lines 252-253: v & 0xFF, (v >> 8) & 0xFF
LoByte(v) ==
    BitAnd(v, BYTE_MASK, BYTE_BITS)

HiByte(v) ==
    BitAnd(ShiftRight(v, BYTE_BITS), BYTE_MASK, BYTE_BITS)

\* the two bytes in the other order
PackInt16_BigEndian(v) ==
    <<HiByte(v), LoByte(v)>>

PackInt16(v) ==
    <<LoByte(v), HiByte(v)>>

\* the conversion rounding toward minus infinity
ToMilliG_Floor(r) ==
    (r * MILLI_PER_G) \div UnitsPerG

\* the conversion scaling by a hundred instead of a thousand
ToMilliG_Centi(r) ==
    TruncDiv(r * (MILLI_PER_G \div 10), UnitsPerG)

\* lines 247-249: (int16_t)(reading * 1000), reading in g
ToMilliG(r) ==
    TruncDiv(r * MILLI_PER_G, UnitsPerG)

\* lines 252-257: x, then y, then z
PackMilliG(x_mg, y_mg, z_mg) ==
    PackInt16(x_mg) \o PackInt16(y_mg) \o PackInt16(z_mg)

\* lines 246-257: one sample
PackSample(x, y, z) ==
    PackMilliG(ToMilliG(x), ToMilliG(y), ToMilliG(z))

RECURSIVE PackSamples(_, _)
PackSamples(first, n) ==
    IF n = 0
    THEN <<>>
    ELSE PackSample(accelX[first], accelY[first], accelZ[first])
         \o PackSamples(first + 1, n - 1)

\* the samples indexed from the chunk number instead of samplesSent
PackChunk_IndexByChunk(c, sent) ==
    LET n == SamplesInChunk(SAMPLES_PER_CAPTURE, SAMPLES_PER_CHUNK, sent)
    IN  <<c, n>> \o PackSamples(c, n)

\* lines 238-258: the bytes buffer[0 .. bufferIndex-1] of chunk c
PackChunk(c, sent) ==
    LET n == SamplesInChunk(SAMPLES_PER_CAPTURE, SAMPLES_PER_CHUNK, sent)
    IN  <<c, n>> \o PackSamples(sent, n)

(***************************************************************************)
(* Characteristic writes                                                   *)
(***************************************************************************)
Status(code) ==
    [ch |-> "status", val |-> <<code>>]

Command(code) ==
    [ch |-> "command", val |-> <<code>>]

Data(bytes) ==
    [ch |-> "data", val |-> bytes]

(***************************************************************************)
(* Phases of the CaptureStateMachine, read off the sketch's position       *)
(***************************************************************************)
CountdownPcs ==
    {"p147", "p152", "p157", "p162", "p167"}

TransmitPcs ==
    {"p224", "p261", "p268", "p276", "p282", "p287"}

LoopPcs ==
    {"accept", "p113", "loop"}

PollPcs ==
    LoopPcs \cup CountdownPcs \cup TransmitPcs

Phase ==
    IF pc \in CountdownPcs THEN "Countdown"
    ELSE IF pc \in TransmitPcs THEN "Transmitting"
    ELSE IF captureInProgress THEN "Recording"
    ELSE "Idle"

Busy ==
    Phase \in {"Countdown", "Recording", "Transmitting"}

(***************************************************************************)
(* Init: the globals as declared (lines 40-48), setup() done               *)
(***************************************************************************)
InitNode ==
    /\ captureRequested = FALSE
    /\ captureInProgress = FALSE
    /\ currentSampleIndex = 0
    /\ accelX = [i \in 0 .. SAMPLES_PER_CAPTURE - 1 |-> 0]
    /\ accelY = [i \in 0 .. SAMPLES_PER_CAPTURE - 1 |-> 0]
    /\ accelZ = [i \in 0 .. SAMPLES_PER_CAPTURE - 1 |-> 0]
    /\ elapsedTime = 0
    /\ pc = "accept"
    /\ chunk = 0
    /\ samplesSent = 0
    /\ bufferIndex = 0
    /\ sinceFlush = 0
    /\ imuAvailable = FALSE
    /\ linkUp = FALSE
    /\ imuReads = 0
    /\ txLog = <<Command(CMD_IDLE), Status(STATUS_READY)>>
    /\ connCount = 0
    /\ captureNo = 0
    /\ startOnConn = FALSE
    /\ interrupted = FALSE
    /\ startInRecording = FALSE

\* no conversion run and no host session is under way
ConvIdle ==
    /\ convIn = 0
    /\ convOut = <<>>

\* runCapture has not resolved
NoResult ==
    [error |-> "pending", samples |-> <<>>]

HostIdle ==
    /\ hOrder = <<0, 1>>
    /\ hOmit = -1
    /\ hPos = 0
    /\ hDups = 0
    /\ hLost = 0
    /\ rxBuffer = <<>>
    /\ completeSeen = FALSE
    /\ hState = "Idle"
    /\ hResult = NoResult
    /\ hAttempt = 0
    /\ hDiscarded = 0
    /\ hBase = 0

\* the encoder and packing runs are not under way
InitAux ==
    /\ encC = 0
    /\ encK = 0
    /\ encChunk = 0
    /\ encSent = 0
    /\ encCounts = <<>>
    /\ packIn = <<>>
    /\ packOut = <<>>
    /\ ConvIdle
    /\ HostIdle

Init ==
    InitNode /\ InitAux

(***************************************************************************)
(* Environment                                                             *)
(***************************************************************************)
\* a central connects (the stack advertises whenever it has no central)
Connect ==
    /\ ~linkUp
    /\ connCount < MaxConnections
    /\ linkUp' = TRUE
    /\ connCount' = connCount + 1
    /\ startOnConn' = FALSE
    /\ UNCHANGED <<nodeVars, imuReads, txLog, captureNo, interrupted,
                   startInRecording>>
    /\ UNCHANGED auxVars

\* the link drops
Disconnect ==
    /\ linkUp
    /\ linkUp' = FALSE
    /\ interrupted' = (interrupted \/ Busy)
    /\ UNCHANGED <<nodeVars, imuReads, txLog, connCount, captureNo,
                   startOnConn, startInRecording>>
    /\ UNCHANGED auxVars

\* SAMPLE_PERIOD_MS pass while the loop polls, waiting for the next sample
\* to fall due (the loop turns faster than the sample clock)
Tick ==
    /\ pc \in {"accept", "loop"}
    /\ captureInProgress
    /\ elapsedTime < ClockCap
    /\ elapsedTime < currentSampleIndex * SAMPLE_PERIOD_MS
    /\ elapsedTime' = Delay(elapsedTime, SAMPLE_PERIOD_MS)
    /\ UNCHANGED <<captureRequested, captureInProgress, currentSampleIndex,
                   accelX, accelY, accelZ, pc, chunk, samplesSent,
                   bufferIndex, sinceFlush, imuAvailable, envVars, histVars>>
    /\ UNCHANGED auxVars

(***************************************************************************)
(* onCommandWritten (lines 135-142): the host writes the command           *)
(* characteristic and the stack runs the handler inside the poll the       *)
(* sketch is standing at                                                   *)
(***************************************************************************)
\* the handler without its busy check
CommandAccepted_NoBusyCheck(command) ==
    command = CMD_START_CAPTURE

\* line 139
CommandAccepted(command) ==
    command = CMD_START_CAPTURE /\ ~captureInProgress

CommandHandler(command) ==
    /\ pc \in PollPcs
    /\ linkUp
    /\ command = CMD_START_CAPTURE
         => captureNo + (IF captureRequested THEN 1 ELSE 0) < MaxCaptures
    /\ captureRequested' = (captureRequested \/ CommandAccepted(command))
    /\ startOnConn' = (startOnConn \/ command = CMD_START_CAPTURE)
    /\ startInRecording' =
         (startInRecording
            \/ (command = CMD_START_CAPTURE /\ Phase = "Recording"))
    /\ UNCHANGED <<captureInProgress, currentSampleIndex, accelX, accelY,
                   accelZ, elapsedTime, pc, chunk, samplesSent, bufferIndex,
                   sinceFlush, imuAvailable, linkUp, imuReads, txLog,
                   connCount, captureNo, interrupted>>

onCommandWritten(command) ==
    /\ CommandHandler(command)
    /\ UNCHANGED auxVars

(***************************************************************************)
(* loop() (lines 103-133)                                                  *)
(***************************************************************************)
\* lines 105-112: a central is there; greet it
LoopAccept ==
    /\ pc = "accept"
    /\ linkUp
    /\ elapsedTime' = Delay(elapsedTime, CONNECT_DELAY_MS)
    /\ txLog' = Append(txLog, Status(STATUS_READY))
    /\ pc' = "p113"
    /\ UNCHANGED <<captureRequested, captureInProgress, currentSampleIndex,
                   accelX, accelY, accelZ, chunk, samplesSent, bufferIndex,
                   sinceFlush, imuAvailable, linkUp, imuReads,
                   histVars>>
    /\ UNCHANGED auxVars

\* lines 113-114
LoopGreeted ==
    /\ pc = "p113"
    /\ elapsedTime' = Delay(elapsedTime, POLL_DELAY_MS)
    /\ pc' = "loop"
    /\ UNCHANGED <<captureRequested, captureInProgress, currentSampleIndex,
                   accelX, accelY, accelZ, chunk, samplesSent, bufferIndex,
                   sinceFlush, imuAvailable, envVars, histVars>>
    /\ UNCHANGED auxVars

\* line 116 false, line 131
LoopExit ==
    /\ pc = "loop"
    /\ ~linkUp
    /\ pc' = "accept"
    /\ UNCHANGED <<captureRequested, captureInProgress, currentSampleIndex,
                   accelX, accelY, accelZ, elapsedTime, chunk, samplesSent,
                   bufferIndex, sinceFlush, imuAvailable, envVars, histVars>>
    /\ UNCHANGED auxVars

\* lines 118-120 and startCapture lines 146-147
LoopStartCapture ==
    /\ pc = "loop"
    /\ linkUp
    /\ captureRequested /\ ~captureInProgress
    /\ captureRequested' = FALSE
    /\ txLog' = <<Command(CMD_BUSY)>>
    /\ pc' = "p147"
    /\ captureNo' = captureNo + 1
    /\ interrupted' = FALSE
    /\ startInRecording' = FALSE
    /\ UNCHANGED <<captureInProgress, currentSampleIndex, accelX, accelY,
                   accelZ, elapsedTime, chunk, samplesSent, bufferIndex,
                   sinceFlush, imuAvailable, linkUp, imuReads,
                   connCount, startOnConn>>
    /\ UNCHANGED auxVars

(***************************************************************************)
(* startCapture (lines 144-177)                                            *)
(***************************************************************************)
CountdownStep(here, ms, code, next) ==
    /\ pc = here
    /\ elapsedTime' = Delay(elapsedTime, ms)
    /\ txLog' = Append(txLog, Status(code))
    /\ pc' = next
    /\ UNCHANGED <<captureRequested, captureInProgress, currentSampleIndex,
                   accelX, accelY, accelZ, chunk, samplesSent, bufferIndex,
                   sinceFlush, imuAvailable, linkUp, imuReads,
                   histVars>>
    /\ UNCHANGED auxVars

\* lines 148-152
Start147 ==
    CountdownStep("p147", POLL_DELAY_MS, STATUS_COUNTDOWN_3, "p152")

\* the second step announcing the wrong count
Start152_WrongCode ==
    CountdownStep("p152", COUNTDOWN_STEP_MS, STATUS_COUNTDOWN_1, "p157")

\* lines 153-157
Start152 ==
    CountdownStep("p152", COUNTDOWN_STEP_MS, STATUS_COUNTDOWN_2, "p157")

\* lines 158-162
Start157 ==
    CountdownStep("p157", COUNTDOWN_STEP_MS, STATUS_COUNTDOWN_1, "p162")

\* lines 163-167
Start162 ==
    CountdownStep("p162", COUNTDOWN_STEP_MS, STATUS_CAPTURING, "p167")

\* lines 169-176: recording begins; back in loop() at line 124
Start167 ==
    /\ pc = "p167"
    /\ captureInProgress' = TRUE
    /\ elapsedTime' = Delay(0, BLINK_MS)
    /\ currentSampleIndex' = 0
    /\ pc' = "l124"
    /\ UNCHANGED <<captureRequested, accelX, accelY, accelZ, chunk,
                   samplesSent, bufferIndex, sinceFlush, imuAvailable,
                   envVars, histVars>>
    /\ UNCHANGED auxVars

(***************************************************************************)
(* performCapture (lines 179-219), up to the first poll of sendDataOverBLE *)
(***************************************************************************)
\* the deadline test left out
SampleDue_Always ==
    TRUE

\* line 184
SampleDue ==
    elapsedTime >= currentSampleIndex * SAMPLE_PERIOD_MS

\* the test stopping one slot short
BufferHasRoom_OneShort ==
    currentSampleIndex < SAMPLES_PER_CAPTURE - 1

\* line 185
BufferHasRoom ==
    currentSampleIndex < SAMPLES_PER_CAPTURE

\* the recording also ended by the clock, after the capture window
CaptureDone_TimeDriven(index) ==
    index >= SAMPLES_PER_CAPTURE \/ elapsedTime >= ClockCap

\* line 203
CaptureDone(index) ==
    index >= SAMPLES_PER_CAPTURE

\* the index left where it is
NextIndex_Stuck(index) ==
    index

\* line 196
NextIndex(index) ==
    index + 1

\* the read made without asking the sensor
TakesSample_IgnoresAvailability(asked, available) ==
    asked

\* line 188: the reading is taken only if the sensor has one
TakesSample(asked, available) ==
    asked /\ available

performCapture(available) ==
    LET asked == SampleDue /\ BufferHasRoom
        take == TakesSample(asked, available)
        reading == Reading(imuReads + 1)
        index == IF take THEN NextIndex(currentSampleIndex)
                 ELSE currentSampleIndex
    IN  /\ imuAvailable' = IF asked THEN available ELSE imuAvailable
        /\ IF take
           THEN /\ accelX' = [accelX EXCEPT ![currentSampleIndex] = reading[1]]
                /\ accelY' = [accelY EXCEPT ![currentSampleIndex] = reading[2]]
                /\ accelZ' = [accelZ EXCEPT ![currentSampleIndex] = reading[3]]
                /\ imuReads' = imuReads + 1
           ELSE UNCHANGED <<accelX, accelY, accelZ, imuReads>>
        /\ currentSampleIndex' = index
        /\ IF CaptureDone(index)
           THEN \* lines 204-211, sendDataOverBLE lines 223-224
                /\ captureInProgress' = FALSE
                /\ elapsedTime' = Delay(elapsedTime, 4 * BLINK_MS)
                /\ txLog' = Append(txLog, Status(STATUS_CAPTURING))
                /\ pc' = "p224"
           ELSE /\ pc' = "loop"
                /\ UNCHANGED <<captureInProgress, elapsedTime, txLog>>
        /\ UNCHANGED <<captureRequested, chunk, samplesSent, bufferIndex,
                       sinceFlush, linkUp, histVars>>

\* lines 124-126, entered from line 116 or on return from startCapture:
\* one pass, IMU.accelerationAvailable() answering available if it is asked
PerformCapturePass(available) ==
    /\ \/ pc = "loop" /\ linkUp /\ captureInProgress
       \/ pc = "l124"
    /\ performCapture(available)
    /\ UNCHANGED auxVars

LoopPerformCapture ==
    \E available \in BOOLEAN : PerformCapturePass(available)

(***************************************************************************)
(* sendDataOverBLE (lines 221-289)                                         *)
(***************************************************************************)
\* the loop counter stepping over a chunk
NextChunk_SkipsOne(c) ==
    c + 2

\* line 234: chunk++
NextChunk(c) ==
    c + 1

\* lines 235-260 for chunk c, or lines 274-275 when the loop is over
ChunkLoop(c, sent) ==
    IF c < TOTAL_CHUNKS
    THEN LET bytes == PackChunk(c, sent)
         IN  /\ bufferIndex' = Len(bytes)
             /\ txLog' = Append(txLog, Data(bytes))
             /\ sinceFlush' = sinceFlush
             /\ pc' = "p261"
    ELSE /\ sinceFlush' = 0
         /\ pc' = "p276"
         /\ UNCHANGED <<bufferIndex, txLog>>

\* lines 225-261 for chunk 0
Send224 ==
    /\ pc = "p224"
    /\ elapsedTime' = Delay(elapsedTime, POLL_DELAY_MS)
    /\ chunk' = 0
    /\ samplesSent' = 0
    /\ ChunkLoop(0, 0)
    /\ UNCHANGED <<captureRequested, captureInProgress, currentSampleIndex,
                   accelX, accelY, accelZ, imuAvailable, linkUp,
                   imuReads, histVars>>
    /\ UNCHANGED auxVars

\* line 266
KeepAliveDue(c) ==
    (c + 1) % KEEPALIVE_CHUNKS = 0

\* lines 262-268, or lines 262-263 and the next chunk
Send261 ==
    /\ pc = "p261"
    /\ elapsedTime' = Delay(elapsedTime, POLL_DELAY_MS)
    /\ LET sent == samplesSent
                   + SamplesInChunk(SAMPLES_PER_CAPTURE, SAMPLES_PER_CHUNK,
                                    samplesSent)
       IN  /\ samplesSent' = sent
           /\ IF KeepAliveDue(chunk)
              THEN /\ txLog' = Append(txLog, Status(STATUS_CAPTURING))
                   /\ pc' = "p268"
                   /\ UNCHANGED <<chunk, bufferIndex, sinceFlush>>
              ELSE /\ chunk' = NextChunk(chunk)
                   /\ ChunkLoop(NextChunk(chunk), sent)
    /\ UNCHANGED <<captureRequested, captureInProgress, currentSampleIndex,
                   accelX, accelY, accelZ, imuAvailable, linkUp,
                   imuReads, histVars>>
    /\ UNCHANGED auxVars

\* lines 269-270 and the next chunk
Send268 ==
    /\ pc = "p268"
    /\ elapsedTime' = Delay(elapsedTime, POLL_DELAY_MS)
    /\ chunk' = NextChunk(chunk)
    /\ ChunkLoop(NextChunk(chunk), samplesSent)
    /\ UNCHANGED <<captureRequested, captureInProgress, currentSampleIndex,
                   accelX, accelY, accelZ, samplesSent, imuAvailable, linkUp,
                   imuReads, histVars>>
    /\ UNCHANGED auxVars

\* lines 275-282: one turn of the flush loop, then STATUS_COMPLETE
Flush276 ==
    /\ pc = "p276"
    /\ elapsedTime' = Delay(elapsedTime, FLUSH_STEP_MS)
    /\ IF sinceFlush + FLUSH_STEP_MS < FLUSH_MS
       THEN /\ sinceFlush' = sinceFlush + FLUSH_STEP_MS
            /\ UNCHANGED <<pc, txLog>>
       ELSE /\ sinceFlush' = 0
            /\ txLog' = Append(txLog, Status(STATUS_COMPLETE))
            /\ pc' = "p282"
    /\ UNCHANGED <<captureRequested, captureInProgress, currentSampleIndex,
                   accelX, accelY, accelZ, chunk, samplesSent, bufferIndex,
                   imuAvailable, linkUp, imuReads, histVars>>
    /\ UNCHANGED auxVars

\* lines 283-287
Send282 ==
    /\ pc = "p282"
    /\ elapsedTime' = Delay(elapsedTime, POLL_DELAY_MS)
    /\ txLog' = Append(txLog, Command(CMD_IDLE))
    /\ pc' = "p287"
    /\ UNCHANGED <<captureRequested, captureInProgress, currentSampleIndex,
                   accelX, accelY, accelZ, chunk, samplesSent, bufferIndex,
                   sinceFlush, imuAvailable, linkUp, imuReads,
                   histVars>>
    /\ UNCHANGED auxVars

\* line 288, then performCapture line 217 and the poll of line 128
Send287 ==
    /\ pc = "p287"
    /\ elapsedTime' = Delay(elapsedTime, POLL_DELAY_MS)
    /\ txLog' = Append(txLog, Status(STATUS_READY))
    /\ pc' = "loop"
    /\ UNCHANGED <<captureRequested, captureInProgress, currentSampleIndex,
                   accelX, accelY, accelZ, chunk, samplesSent, bufferIndex,
                   sinceFlush, imuAvailable, linkUp, imuReads,
                   histVars>>
    /\ UNCHANGED auxVars

(***************************************************************************)
(* The node and its environment                                            *)
(***************************************************************************)
Next ==
    \/ Connect
    \/ Disconnect
    \/ Tick
    \/ \E command \in {CMD_IDLE, CMD_START_CAPTURE} : onCommandWritten(command)
    \/ LoopAccept
    \/ LoopGreeted
    \/ LoopExit
    \/ LoopStartCapture
    \/ Start147
    \/ Start152
    \/ Start157
    \/ Start162
    \/ Start167
    \/ LoopPerformCapture
    \/ Send224
    \/ Send261
    \/ Send268
    \/ Flush276
    \/ Send282
    \/ Send287

Spec ==
    Init /\ [][Next]_vars

(***************************************************************************)
(* The node on a link that stays up: the host connects once and never      *)
(* disconnects.  loop() runs for ever (it is called again and again by the *)
(* Arduino core, and every delay of the sketch is finite) and millis()     *)
(* goes on counting: the straight-line steps of the sketch, the pass of    *)
(* performCapture and the clock are weakly fair.  Nothing is assumed of    *)
(* the IMU: a pass in which it has no reading changes nothing.             *)
(***************************************************************************)
\* the steps of the sketch that wait for nothing but their own delays
SketchStep ==
    \/ LoopAccept
    \/ LoopGreeted
    \/ LoopStartCapture
    \/ Start147
    \/ Start152
    \/ Start157
    \/ Start162
    \/ Start167
    \/ Send224
    \/ Send261
    \/ Send268
    \/ Flush276
    \/ Send282
    \/ Send287

NextLive ==
    \/ Connect
    \/ Tick
    \/ \E command \in {CMD_IDLE, CMD_START_CAPTURE} : onCommandWritten(command)
    \/ SketchStep
    \/ LoopPerformCapture

LiveFairness ==
    /\ WF_vars(Tick)
    /\ WF_vars(SketchStep)
    /\ WF_vars(PerformCapturePass(FALSE))

SpecLive ==
    Init /\ [][NextLive]_vars /\ LiveFairness

(***************************************************************************)
(* The ChunkEncoder's loop (lines 229-263) run alone, for every capacity   *)
(* and chunk size of EncInputs                                             *)
(***************************************************************************)
\* capacities and chunk sizes tried besides the sketch's own
MaxCapacity == 12
MaxChunkSize == 5

EncInputs ==
    ((1 .. MaxCapacity) \X (1 .. MaxChunkSize))
        \cup {<<SAMPLES_PER_CAPTURE, SAMPLES_PER_CHUNK>>}

InitEncoder ==
    /\ InitNode
    /\ \E input \in EncInputs :
         /\ encC = input[1]
         /\ encK = input[2]
    /\ encChunk = 0
    /\ encSent = 0
    /\ encCounts = <<>>
    /\ packIn = <<>>
    /\ packOut = <<>>
    /\ ConvIdle
    /\ HostIdle

\* one turn of the loop of line 234: lines 235, 239, 263
EncEmit ==
    /\ encChunk < TotalChunks(encC, encK)
    /\ LET samplesInChunk == SamplesInChunk(encC, encK, encSent)
       IN  /\ encCounts' = Append(encCounts, samplesInChunk)
           /\ encSent' = encSent + samplesInChunk
    /\ encChunk' = NextChunk(encChunk)
    /\ UNCHANGED <<encC, encK, packVars, convVars, hostVars, nodeVars,
                   envVars, histVars>>

NextEncoder ==
    EncEmit

SpecEncoder ==
    InitEncoder /\ [][NextEncoder]_vars

(***************************************************************************)
(* The packing of one sample (lines 252-257) run alone, for every int16    *)
(* value on each axis                                                      *)
(***************************************************************************)
Int16 ==
    INT16_MIN .. INT16_MAX

\* (int16_t) of an int: wrap into the int16 range
ToInt16(v) ==
    ((v - INT16_MIN) % (INT16_MAX - INT16_MIN + 1)) + INT16_MIN

PackInputs ==
    {<<v, -v - 1, ToInt16(v + INT16_MAX)>> : v \in Int16}

InitPack ==
    /\ InitNode
    /\ encC = 0
    /\ encK = 0
    /\ encChunk = 0
    /\ encSent = 0
    /\ encCounts = <<>>
    /\ packIn \in PackInputs
    /\ packOut = <<>>
    /\ ConvIdle
    /\ HostIdle

PackStep ==
    /\ packOut = <<>>
    /\ packOut' = PackMilliG(packIn[1], packIn[2], packIn[3])
    /\ UNCHANGED <<packIn, encVars, convVars, hostVars, nodeVars, envVars,
                   histVars>>

NextPack ==
    PackStep

SpecPack ==
    InitPack /\ [][NextPack]_vars

\* the host's struct.unpack('<h'): a little-endian two's complement int16
DecodeInt16LE(lo, hi) ==
    LET u == lo + (BYTE_MASK + 1) * hi
    IN  IF u > INT16_MAX THEN u - (INT16_MAX - INT16_MIN + 1) ELSE u

(***************************************************************************)
(* The way of one reading (lines 247-253, then the host's unpacking) run    *)
(* alone, for the readings of ConvInputs: those within MaxReading of zero  *)
(* and those at the two ends of the int16 range                            *)
(***************************************************************************)
\* readings tried on each side of zero, in tenths of a milli-g
MaxReading == 250

\* 0.001 g, the quantization step, in the unit of the readings
Quantum ==
    UnitsPerG \div MILLI_PER_G

ConvInputs ==
    (-MaxReading .. MaxReading)
        \cup (Quantum * INT16_MAX - Quantum .. Quantum * INT16_MAX + Quantum - 1)
        \cup (Quantum * INT16_MIN - Quantum + 1 .. Quantum * INT16_MIN + Quantum)

\* the host's stored_int16 / 1000.0, in the unit of the readings
FromMilliG(m) ==
    m * Quantum

InitConv ==
    /\ InitNode
    /\ encC = 0
    /\ encK = 0
    /\ encChunk = 0
    /\ encSent = 0
    /\ encCounts = <<>>
    /\ packIn = <<>>
    /\ packOut = <<>>
    /\ convIn \in ConvInputs
    /\ convOut = <<>>
    /\ HostIdle

\* lines 247, 252-253 for one reading, and the host's decoding of the two
\* bytes: <<the int16 transmitted, its low byte, its high byte, the reading
\* the host recovers>>
ConvStep ==
    /\ convOut = <<>>
    /\ LET mg == ToMilliG(convIn)
           bytes == PackInt16(mg)
       IN  convOut' = <<mg, bytes[1], bytes[2],
                        FromMilliG(DecodeInt16LE(bytes[1], bytes[2]))>>
    /\ UNCHANGED <<convIn, encVars, packVars, hostVars, nodeVars, envVars,
                   histVars>>

NextConv ==
    ConvStep

SpecConv ==
    InitConv /\ [][NextConv]_vars

(***************************************************************************)
(* The host.  Its code (raspberry_pi_collector.py, ble_capture_module.py)  *)
(* is not among the sources: ChunkReassembler and CaptureSession are       *)
(* modelled from the specification, sections 4.4 and 4.5.  What reaches    *)
(* the host is what the sketch writes: the chunks of PackChunk.            *)
(***************************************************************************)
\* the CaptureBuffer after the n-th capture was recorded (lines 192-196)
CaptureData(n, axis) ==
    [i \in 0 .. SAMPLES_PER_CAPTURE - 1
       |-> Reading((n - 1) * SAMPLES_PER_CAPTURE + i + 1)[axis]]

\* the node with its n-th capture recorded, about to transmit it
NodeRecorded(n) ==
    /\ captureRequested = FALSE
    /\ captureInProgress = FALSE
    /\ currentSampleIndex = SAMPLES_PER_CAPTURE
    /\ accelX = CaptureData(n, 1)
    /\ accelY = CaptureData(n, 2)
    /\ accelZ = CaptureData(n, 3)
    /\ elapsedTime = ClockCap
    /\ pc = "p224"
    /\ chunk = 0
    /\ samplesSent = 0
    /\ bufferIndex = 0
    /\ sinceFlush = 0
    /\ imuAvailable = TRUE
    /\ linkUp = TRUE
    /\ imuReads = n * SAMPLES_PER_CAPTURE
    /\ txLog = <<>>
    /\ connCount = 1
    /\ captureNo = n
    /\ startOnConn = TRUE
    /\ interrupted = FALSE
    /\ startInRecording = FALSE

\* lines 234-260: the notification carrying chunk seq (samplesSent is
\* seq * SAMPLES_PER_CHUNK when the loop reaches it)
NodeChunk(seq) ==
    PackChunk(seq, seq * SAMPLES_PER_CHUNK)

\* a notification left over from another capture: the header of chunk seq,
\* the samples of another chunk
StaleChunk(seq) ==
    LET other == (seq + 1) % (TOTAL_CHUNKS - 1)
        n == SamplesInChunk(SAMPLES_PER_CAPTURE, SAMPLES_PER_CHUNK,
                            seq * SAMPLES_PER_CHUNK)
    IN  <<seq, n>> \o PackSamples(other * SAMPLES_PER_CHUNK, n)

\* the sequence numbers the host expects (a protocol constant)
ExpectedSeqs ==
    0 .. TOTAL_CHUNKS - 1

\* the chunk filed under the count of chunks received so far
OnChunk_ByArrival(buffer, bytes) ==
    LET seq == Cardinality(DOMAIN buffer)
    IN  [s \in DOMAIN buffer \cup {seq}
           |-> IF s = seq THEN bytes ELSE buffer[s]]

\* a later copy replacing the first
OnChunk_LastWins(buffer, bytes) ==
    LET seq == bytes[1]
    IN  [s \in DOMAIN buffer \cup {seq}
           |-> IF s = seq THEN bytes ELSE buffer[s]]

\* onChunk: the payload recorded under its sequence number; a sequence
\* number already present is left as it is
OnChunk(buffer, bytes) ==
    LET seq == bytes[1]
    IN  IF seq \in DOMAIN buffer
        THEN buffer
        ELSE [s \in DOMAIN buffer \cup {seq}
                |-> IF s = seq THEN bytes ELSE buffer[s]]

\* complete as soon as the last sequence number is there
IsComplete_LastSeen(buffer) ==
    (TOTAL_CHUNKS - 1) \in DOMAIN buffer

\* isComplete: every expected sequence number is present
IsComplete(buffer) ==
    \A s \in ExpectedSeqs : s \in DOMAIN buffer

\* the samples of one chunk: count triples of little-endian int16,
\* in g (divided by 1000)
ChunkSamples(bytes) ==
    [i \in 1 .. bytes[2]
       |-> [k \in 1 .. 3
              |-> FromMilliG(DecodeInt16LE(bytes[6 * i + 2 * k - 5],
                                           bytes[6 * i + 2 * k - 4]))]]

\* the samples of chunks lo .. hi, concatenated in sequence-number order
RECURSIVE MaterializeFrom(_, _, _)
MaterializeFrom(buffer, lo, hi) ==
    IF lo = hi
    THEN ChunkSamples(buffer[lo])
    ELSE LET mid == (lo + hi) \div 2
         IN  MaterializeFrom(buffer, lo, mid)
               \o MaterializeFrom(buffer, mid + 1, hi)

Failure(error) ==
    [error |-> error, samples |-> <<>>]

\* materialize: the chunks concatenated in sequence-number order, or the
\* IncompleteCapture error
Materialize(buffer) ==
    IF IsComplete(buffer)
    THEN [error |-> "none",
          samples |-> MaterializeFrom(buffer, 0, TOTAL_CHUNKS - 1)]
    ELSE Failure("IncompleteCapture")

\* the order of delivery <<a, s>>: the i-th notification to arrive is chunk
\* (a + s * i) mod TOTAL_CHUNKS
OrderAt(order, i) ==
    (order[1] + order[2] * i) % TOTAL_CHUNKS

Strides ==
    {s \in 1 .. TOTAL_CHUNKS - 1 :
       Cardinality({(s * i) % TOTAL_CHUNKS : i \in ExpectedSeqs})
         = TOTAL_CHUNKS}

Orders ==
    ExpectedSeqs \X Strides

InOrder ==
    <<0, 1>>

Reversed ==
    <<TOTAL_CHUNKS - 1, TOTAL_CHUNKS - 1>>

(***************************************************************************)
(* ChunkReassembler run alone on the chunks of one recorded capture: the   *)
(* link delivers them in the order hOrder, never delivers chunk hOmit, and *)
(* may deliver again what it has delivered                                 *)
(***************************************************************************)
\* duplicates the link may deliver
MaxDups == 1

InitReasm ==
    /\ NodeRecorded(1)
    /\ encC = 0
    /\ encK = 0
    /\ encChunk = 0
    /\ encSent = 0
    /\ encCounts = <<>>
    /\ packIn = <<>>
    /\ packOut = <<>>
    /\ ConvIdle
    /\ \E order \in Orders, omit \in {-1} \cup ExpectedSeqs :
         /\ omit # -1 => order \in {InOrder, <<0, TOTAL_CHUNKS - 1>>}
         /\ hOrder = order
         /\ hOmit = omit
    /\ hPos = 0
    /\ hDups = 0
    /\ hLost = 0
    /\ rxBuffer = <<>>
    /\ completeSeen = FALSE
    /\ hState = "Receiving"
    /\ hResult = NoResult
    /\ hAttempt = 1
    /\ hDiscarded = 0
    /\ hBase = 0

\* the next notification arrives, unless it is the one the link loses
ReasmDeliver ==
    /\ hState = "Receiving"
    /\ hPos < TOTAL_CHUNKS
    /\ LET seq == OrderAt(hOrder, hPos)
       IN  IF seq = hOmit
           THEN /\ hLost' = hLost + 1
                /\ UNCHANGED rxBuffer
           ELSE /\ rxBuffer' = OnChunk(rxBuffer, NodeChunk(seq))
                /\ UNCHANGED hLost
    /\ hPos' = hPos + 1
    /\ UNCHANGED <<hOrder, hOmit, hDups, completeSeen, hState, hResult,
                   hAttempt, hDiscarded, hBase>>
    /\ UNCHANGED <<nodeVars, envVars, histVars, encVars, packVars, convVars>>

\* the arrivals the link may repeat: the first and the latest
Repeatable ==
    {i \in {0, hPos - 1} : i >= 0 /\ i < hPos}

\* a notification that has arrived arrives again, as it was or with the
\* samples of another capture
ReasmRedeliver ==
    /\ hState = "Receiving"
    /\ hDups < MaxDups
    /\ \E i \in Repeatable, stale \in BOOLEAN :
         LET seq == OrderAt(hOrder, i)
         IN  /\ seq # hOmit
             /\ rxBuffer' = OnChunk(rxBuffer,
                                    IF stale THEN StaleChunk(seq)
                                    ELSE NodeChunk(seq))
    /\ hDups' = hDups + 1
    /\ UNCHANGED <<hOrder, hOmit, hPos, hLost, completeSeen, hState, hResult,
                   hAttempt, hDiscarded, hBase>>
    /\ UNCHANGED <<nodeVars, envVars, histVars, encVars, packVars, convVars>>

\* materialize is called when the link has nothing more to deliver
ReasmMaterialize ==
    /\ hState = "Receiving"
    /\ hPos = TOTAL_CHUNKS
    /\ hResult' = Materialize(rxBuffer)
    /\ hState' = IF IsComplete(rxBuffer) THEN "Done" ELSE "Failed"
    /\ UNCHANGED <<hOrder, hOmit, hPos, hDups, hLost, rxBuffer, completeSeen,
                   hAttempt, hDiscarded, hBase>>
    /\ UNCHANGED <<nodeVars, envVars, histVars, encVars, packVars, convVars>>

NextReasm ==
    \/ ReasmDeliver
    \/ ReasmRedeliver
    \/ ReasmMaterialize

SpecReasm ==
    InitReasm /\ [][NextReasm]_vars

(***************************************************************************)
(* CaptureSession: runCapture calls one after the other.  Each call has    *)
(* the node record and transmit one capture; the link delivers the chunks  *)
(* in the order hOrder and loses chunk hOmit; the Complete status reaches  *)
(* the host on its own characteristic, before, between or after the chunks *)
(***************************************************************************)
\* runCapture calls in one run
MaxAttempts == 2

\* the orders of delivery the sessions are run with
SessionOrders ==
    {InOrder, Reversed}

\* the chunk a session's link loses (-1: none)
SessionOmits ==
    {-1, 0, TOTAL_CHUNKS \div 2, TOTAL_CHUNKS - 1}

\* the buffer is carried over
Discarded_Kept(buffer) ==
    buffer

\* the ReassemblyBuffer discarded: the next session owns an empty one
Discarded(buffer) ==
    <<>>

\* resolving on the Complete status alone
ResolveReady_StatusOnly(buffer, seen) ==
    seen

\* runCapture resolves once the reassembler reports complete and a
\* completion status was observed
ResolveReady(buffer, seen) ==
    IsComplete(buffer) /\ seen

\* the first runCapture is under way: the start command was sent and the
\* node has recorded its first capture
InitSession ==
    /\ NodeRecorded(1)
    /\ encC = 0
    /\ encK = 0
    /\ encChunk = 0
    /\ encSent = 0
    /\ encCounts = <<>>
    /\ packIn = <<>>
    /\ packOut = <<>>
    /\ ConvIdle
    /\ hOrder \in SessionOrders
    /\ hOmit \in SessionOmits
    /\ hPos = 0
    /\ hDups = 0
    /\ hLost = 0
    /\ rxBuffer = <<>>
    /\ completeSeen = FALSE
    /\ hState = "Receiving"
    /\ hResult = NoResult
    /\ hAttempt = 1
    /\ hDiscarded = 0
    /\ hBase = 0

\* the Complete status (line 281) is observed
SessComplete ==
    /\ hState = "Receiving"
    /\ ~completeSeen
    /\ completeSeen' = TRUE
    /\ UNCHANGED <<hOrder, hOmit, hPos, hDups, hLost, rxBuffer, hState,
                   hResult, hAttempt, hDiscarded, hBase>>
    /\ UNCHANGED <<nodeVars, envVars, histVars, encVars, packVars, convVars>>

\* runCapture resolves with the CaptureResult; the ReassemblyBuffer is
\* discarded once the result is made
SessResolve ==
    /\ hState = "Receiving"
    /\ ResolveReady(rxBuffer, completeSeen)
    /\ hResult' = Materialize(rxBuffer)
    /\ hState' = "Done"
    /\ rxBuffer' = Discarded(rxBuffer)
    /\ UNCHANGED <<hOrder, hOmit, hPos, hDups, hLost, completeSeen, hAttempt,
                   hDiscarded, hBase>>
    /\ UNCHANGED <<nodeVars, envVars, histVars, encVars, packVars, convVars>>

\* the timeout passes with no terminal status observed: runCapture fails
\* with Timeout and the partially filled buffer is discarded
SessTimeout ==
    /\ hState = "Receiving"
    /\ ~completeSeen
    /\ hResult' = Failure("Timeout")
    /\ hState' = "Failed"
    /\ hDiscarded' = Cardinality(DOMAIN rxBuffer)
    /\ rxBuffer' = Discarded(rxBuffer)
    /\ UNCHANGED <<hOrder, hOmit, hPos, hDups, hLost, completeSeen, hAttempt,
                   hBase>>
    /\ UNCHANGED <<nodeVars, envVars, histVars, encVars, packVars, convVars>>

\* a fresh runCapture after the previous one resolved or failed: the node
\* records its next capture (lines 192-196) and the session starts from a
\* clean buffer
SessRunCapture ==
    /\ hState \in {"Done", "Failed"}
    /\ hAttempt < MaxAttempts
    /\ hAttempt' = hAttempt + 1
    /\ accelX' = CaptureData(hAttempt + 1, 1)
    /\ accelY' = CaptureData(hAttempt + 1, 2)
    /\ accelZ' = CaptureData(hAttempt + 1, 3)
    /\ imuReads' = (hAttempt + 1) * SAMPLES_PER_CAPTURE
    /\ captureNo' = hAttempt + 1
    /\ hOrder' \in SessionOrders
    /\ hOmit' \in SessionOmits
    /\ hPos' = 0
    /\ hLost' = 0
    /\ rxBuffer' = Discarded(rxBuffer)
    /\ completeSeen' = FALSE
    /\ hState' = "Receiving"
    /\ hResult' = NoResult
    /\ hBase' = captureNo
    /\ UNCHANGED <<hDups, hDiscarded>>
    /\ UNCHANGED <<captureRequested, captureInProgress, currentSampleIndex,
                   elapsedTime, pc, chunk, samplesSent, bufferIndex,
                   sinceFlush, imuAvailable, linkUp, txLog, connCount,
                   startOnConn, interrupted, startInRecording>>
    /\ UNCHANGED <<encVars, packVars, convVars>>

NextSession ==
    \/ ReasmDeliver
    \/ SessComplete
    \/ SessResolve
    \/ SessTimeout
    \/ SessRunCapture

SpecSession ==
    InitSession /\ [][NextSession]_vars

(***************************************************************************)
(* Reading the log of characteristic writes                                *)
(***************************************************************************)
IsStatus(e) ==
    e.ch = "status"

IsData(e) ==
    e.ch = "data"

\* the status codes written, in order
StatusCodes ==
    LET st == SelectSeq(txLog, IsStatus)
    IN  [i \in 1 .. Len(st) |-> st[i].val[1]]

\* the data chunks written, in order
DataChunks ==
    LET d == SelectSeq(txLog, IsData)
    IN  [i \in 1 .. Len(d) |-> d[i].val]

\* positions in the log
Positions(e) ==
    {i \in 1 .. Len(txLog) : txLog[i] = e}

DataPositions ==
    {i \in 1 .. Len(txLog) : IsData(txLog[i])}

\* this step writes e / a data chunk
Writes(e) ==
    /\ txLog' # txLog
    /\ txLog'[Len(txLog')] = e

WritesData ==
    /\ txLog' # txLog
    /\ IsData(txLog'[Len(txLog')])

WritesCountdown ==
    \/ Writes(Status(STATUS_COUNTDOWN_3))
    \/ Writes(Status(STATUS_COUNTDOWN_2))
    \/ Writes(Status(STATUS_COUNTDOWN_1))

\* ceil(C / K), by its definition
Ceil(C, K) ==
    CHOOSE n \in 0 .. C : n * K >= C /\ (n - 1) * K < C

RECURSIVE SumSeq(_)
SumSeq(q) ==
    IF q = <<>> THEN 0 ELSE Head(q) + SumSeq(Tail(q))

(***************************************************************************)
(* The claims                                                              *)
(***************************************************************************)

\* C1: a StartCapture command received while the node is not Idle /
\* AwaitingReady (in Countdown, Recording or Transmitting) is ignored, not
\* queued: a capture request is registered only while the node is Idle, so
\* no countdown begins because of a command that arrived during a capture.
C1_StartIgnoredWhenBusy ==
    [][(captureRequested' /\ ~captureRequested) => Phase = "Idle"]_vars

\* C2: a StartCapture command received while the node is Recording changes
\* nothing: no request is registered, the countdown is not restarted, the
\* recording clock, the next-free index and every buffer slot keep their
\* values, and nothing is written to the characteristics; and no step taken
\* in Recording, by that command or a later one, registers a request.
C2_StartInRecordingChangesNothing ==
    [][/\ (startInRecording' /\ ~startInRecording)
            => UNCHANGED <<nodeVars, imuReads, txLog>>
       /\ Phase = "Recording" => UNCHANGED captureRequested]_vars

C2_Witness ==
    /\ startInRecording
    /\ Phase = "Recording"
    /\ currentSampleIndex > 0
    /\ currentSampleIndex < SAMPLES_PER_CAPTURE

\* C3: once the link has dropped during a capture (in Countdown, Recording
\* or Transmitting), that capture records no further sample, writes no
\* further chunk and never writes the Complete status, and the node is back
\* at the connection wait with no capture in progress.
C3_DisconnectAbortsCapture ==
    [][interrupted
         => /\ imuReads' = imuReads
            /\ ~WritesData
            /\ ~Writes(Status(STATUS_COMPLETE))
            /\ pc' = "accept" => ~captureInProgress']_vars

\* C4: the node carries nothing from one connection to the next: when a
\* connection is made no capture is requested or in progress, and on a
\* connection on which no StartCapture has been received no countdown status
\* is written, no sample is recorded and no data chunk is written.
C4_NothingCarriedOver ==
    [][/\ (~linkUp /\ linkUp') => (~captureRequested /\ ~captureInProgress)
       /\ (linkUp /\ ~startOnConn)
            => /\ imuReads' = imuReads
               /\ ~WritesData
               /\ ~WritesCountdown]_vars

\* a pass of performCapture in which the sensor, asked for a due sample,
\* had none (after a pass in which it had one)
SensorMiss ==
    imuAvailable /\ ~imuAvailable'

CountdownOrder ==
    <<STATUS_COUNTDOWN_3, STATUS_COUNTDOWN_2, STATUS_COUNTDOWN_1,
      STATUS_CAPTURING>>

C6_Statuses ==
    captureNo > 0
      => LET sc == StatusCodes
         IN  /\ \A i \in 1 .. Min(Len(sc), Len(CountdownOrder)) :
                    sc[i] = CountdownOrder[i]
             /\ \A i \in Len(CountdownOrder) + 1 .. Len(sc) :
                    sc[i] \notin {STATUS_COUNTDOWN_3, STATUS_COUNTDOWN_2,
                                  STATUS_COUNTDOWN_1}
             /\ captureInProgress => Len(sc) >= Len(CountdownOrder)

C6_Step ==
    /\ (captureInProgress' /\ ~captureInProgress)
         => StatusCodes = CountdownOrder
    /\ imuReads' # imuReads
         => /\ Len(StatusCodes) >= Len(CountdownOrder)
            /\ SubSeq(StatusCodes, 1, Len(CountdownOrder)) = CountdownOrder

\* C6: after an accepted start command the status writes begin with
\* Countdown3, Countdown2, Countdown1, Capturing in that order, each
\* countdown status written once; Recording is entered only after all of
\* them, and no sample is recorded before them.
C6_CountdownBeforeRecording ==
    [](C6_Statuses) /\ [][C6_Step]_vars

C6_Witness ==
    /\ Phase = "Recording"
    /\ currentSampleIndex > 0
    /\ StatusCodes = CountdownOrder

ExpectedChunks ==
    Ceil(SAMPLES_PER_CAPTURE, SAMPLES_PER_CHUNK)

\* C7: the data chunks written carry the sequence numbers 0, 1, 2, ... in
\* that order, each once; the first chunk comes right after a
\* start-of-transmission status (the second Capturing status of the
\* capture); Complete is written once, after all ExpectedChunks chunks; and
\* the node is Idle again only after Complete and the Ready that follows it.
C7_TransmitOrder ==
    LET d == DataChunks
        complete == Positions(Status(STATUS_COMPLETE))
        capturing == Positions(Status(STATUS_CAPTURING))
    IN  /\ \A i \in 1 .. Len(d) : d[i][1] = i - 1
        /\ Len(d) <= ExpectedChunks
        /\ \A p \in DataPositions :
              (\A q \in DataPositions : p <= q)
                => /\ txLog[p - 1] = Status(STATUS_CAPTURING)
                   /\ Cardinality({c \in capturing : c < p}) >= 2
        /\ Cardinality(complete) <= 1
        /\ \A c \in complete :
              /\ Len(d) = ExpectedChunks
              /\ \A p \in DataPositions : p < c
        /\ (captureNo > 0 /\ Phase = "Idle")
              => \E c \in complete :
                    \E r \in Positions(Status(STATUS_READY)) : c < r
        /\ Phase = "Transmitting" /\ pc # "p287" /\ pc # "p282"
              => complete = {}

C7_Witness ==
    /\ captureNo > 0
    /\ Phase = "Idle"
    /\ Len(DataChunks) = ExpectedChunks
    /\ Positions(Status(STATUS_COMPLETE)) # {}

EncDone ==
    /\ encC > 0
    /\ encChunk >= TotalChunks(encC, encK)

\* C8: for every capacity C >= 1 and chunk size K >= 1 the encoder writes
\* ceil(C/K) chunks; every chunk but the last declares K samples, the last
\* declares C - K * (ceil(C/K) - 1), which is in 1 .. K, and the declared
\* counts add up to C.  For C = 125, K = 3: 42 chunks, 3 samples in chunks
\* 0 .. 40 and 2 in chunk 41.
C8_ChunkCounts ==
    EncDone
      => LET n == Len(encCounts)
         IN  /\ n = Ceil(encC, encK)
             /\ \A i \in 1 .. n - 1 : encCounts[i] = encK
             /\ encCounts[n] = encC - encK * (n - 1)
             /\ encCounts[n] >= 1 /\ encCounts[n] <= encK
             /\ SumSeq(encCounts) = encC
             /\ (encC = 125 /\ encK = 3)
                  => /\ n = 42
                     /\ \A i \in 1 .. 41 : encCounts[i] = 3
                     /\ encCounts[42] = 2

C8_Witness ==
    /\ EncDone
    /\ encC = SAMPLES_PER_CAPTURE
    /\ encK = SAMPLES_PER_CHUNK
    /\ Len(encCounts) = 42

\* C9: no data chunk exceeds the 20 bytes of a notification: every chunk
\* written has length 2 + 6 * count <= BUFFER_SIZE, and the write index into
\* the packing buffer never passes BUFFER_SIZE.
C9_ChunkFitsBuffer ==
    /\ bufferIndex <= BUFFER_SIZE
    /\ \A p \in DataPositions :
          LET bytes == txLog[p].val
          IN  /\ Len(bytes) = 2 + 6 * bytes[2]
              /\ Len(bytes) <= BUFFER_SIZE

C9_Witness ==
    /\ pc = "p276"
    /\ Len(DataChunks) = ExpectedChunks
    /\ \E p \in DataPositions : Len(txLog[p].val) = BUFFER_SIZE
    /\ \E p \in DataPositions : Len(txLog[p].val) < BUFFER_SIZE

\* C10: each of x, y, z is packed, in that order, as the two bytes
\* (v mod 256, floor(v / 256) mod 256), and decoding the pair as a
\* little-endian two's complement 16-bit integer gives v back, for every
\* v in -32768 .. 32767.
C10_LittleEndianInt16 ==
    packOut # <<>>
      => /\ Len(packOut) = 6
         /\ \A k \in 1 .. 3 :
               LET v == packIn[k]
                   lo == packOut[2 * k - 1]
                   hi == packOut[2 * k]
               IN  /\ lo = v % 256
                   /\ hi = (v \div 256) % 256
                   /\ DecodeInt16LE(lo, hi) = v

C10_Witness ==
    /\ packOut # <<>>
    /\ packIn[1] = INT16_MIN
    /\ packIn[2] = INT16_MAX

ConvDone ==
    convOut # <<>>

\* r * 1000 rounded to the nearest integer, halves away from zero
NearestMilliG(r) ==
    IF r >= 0
    THEN (r + Quantum \div 2) \div Quantum
    ELSE -((Quantum \div 2 - r) \div Quantum)

\* C11 as stated: for every reading r whose milli-g value fits in int16
\* the integer transmitted is round(r * 1000), rounded to the nearest.
C11_ConversionRounds ==
    (ConvDone /\ NearestMilliG(convIn) \in Int16)
      => convOut[1] = NearestMilliG(convIn)

\* C11, amended: for every reading r whose milli-g value fits in int16 the
\* integer transmitted is r * 1000 truncated toward zero, for positive and
\* negative readings alike: the integer m nearest to zero with
\* |r * 1000 - m| < 1, of the sign of r.
C11_ConversionTruncates ==
    ConvDone
      => LET m == convOut[1]
         IN  /\ m \in Int16
             /\ convIn >= 0 => (Quantum * m <= convIn
                                  /\ convIn < Quantum * m + Quantum)
             /\ convIn <= 0 => (Quantum * m >= convIn
                                  /\ convIn > Quantum * m - Quantum)

C11_Witness ==
    /\ ConvDone
    /\ convIn < 0
    /\ convOut[1] < 0
    /\ convOut[1] # NearestMilliG(convIn)

\* C12: for every representable reading v, the reading the host recovers
\* (the int16 decoded from the two bytes, divided by 1000) differs from v
\* by at most the quantization step 0.001 g.
C12_RoundTripWithinStep ==
    ConvDone
      => /\ convOut[4] - convIn <= Quantum
         /\ convIn - convOut[4] <= Quantum

C12_Witness ==
    /\ ConvDone
    /\ convIn < -Quantum
    /\ convOut[4] # convIn
    /\ convOut[4] < 0

Slots ==
    0 .. SAMPLES_PER_CAPTURE - 1

\* this step writes the reading r into slot i of the CaptureBuffer and
\* leaves every other slot as it is
WritesSlot(i, r) ==
    /\ accelX' = [accelX EXCEPT ![i] = r[1]]
    /\ accelY' = [accelY EXCEPT ![i] = r[2]]
    /\ accelZ' = [accelZ EXCEPT ![i] = r[3]]

\* C13: a sample is read only in Recording and no earlier than
\* index * SAMPLE_PERIOD_MS after the recording began; a pass records at
\* most one sample; a late pass stores the sensor's current reading at the
\* next free index and fills no other slot.
C13_SampleTiming ==
    [][imuReads' # imuReads
         => /\ captureInProgress
            /\ elapsedTime >= currentSampleIndex * SAMPLE_PERIOD_MS
            /\ imuReads' = imuReads + 1
            /\ currentSampleIndex' = currentSampleIndex + 1
            /\ WritesSlot(currentSampleIndex, Reading(imuReads + 1))]_vars

C13_Witness ==
    /\ Phase = "Recording"
    /\ currentSampleIndex >= 2
    /\ imuReads >= 2
    /\ elapsedTime >= (currentSampleIndex + 2) * SAMPLE_PERIOD_MS

\* C14: Recording ends in the pass in which the index reaches
\* SAMPLES_PER_CAPTURE and in no other: the node never leaves Recording
\* with fewer samples, however much time has passed, and goes straight on
\* to Transmitting when the last sample is recorded.
C14_IndexDrivenTermination ==
    [][/\ (captureInProgress /\ ~captureInProgress')
            => /\ currentSampleIndex' = SAMPLES_PER_CAPTURE
               /\ imuReads' = imuReads + 1
               /\ pc' = "p224"
       /\ (captureInProgress /\ currentSampleIndex' = SAMPLES_PER_CAPTURE)
            => /\ ~captureInProgress'
               /\ pc' = "p224"
       /\ (captureInProgress /\ elapsedTime >= ClockCap
              /\ currentSampleIndex' < SAMPLES_PER_CAPTURE)
            => captureInProgress']_vars

C14_Witness ==
    /\ Phase = "Recording"
    /\ pc = "loop"
    /\ elapsedTime >= ClockCap
    /\ currentSampleIndex > 0
    /\ currentSampleIndex < SAMPLES_PER_CAPTURE

\* the slots below the index hold the last readings taken, in the order
\* taken, one reading per slot
C15_Filled ==
    /\ currentSampleIndex \in 0 .. SAMPLES_PER_CAPTURE
    /\ currentSampleIndex <= imuReads
    /\ \A j \in 0 .. currentSampleIndex - 1 :
          LET r == Reading(imuReads - currentSampleIndex + 1 + j)
          IN  accelX[j] = r[1] /\ accelY[j] = r[2] /\ accelZ[j] = r[3]

C15_Step ==
    /\ <<accelX, accelY, accelZ>>' # <<accelX, accelY, accelZ>>
         => /\ Phase = "Recording"
            /\ currentSampleIndex < SAMPLES_PER_CAPTURE
            /\ WritesSlot(currentSampleIndex, Reading(imuReads + 1))
            /\ currentSampleIndex' = currentSampleIndex + 1
    /\ currentSampleIndex' # currentSampleIndex
         => \/ /\ currentSampleIndex' = currentSampleIndex + 1
               /\ <<accelX, accelY, accelZ>>' # <<accelX, accelY, accelZ>>
            \/ /\ currentSampleIndex' = 0
               /\ ~captureInProgress /\ captureInProgress'

\* C15: the CaptureBuffer is written once per slot and in index order: the
\* index stays in 0 .. SAMPLES_PER_CAPTURE, each write goes to the slot
\* numbered by the samples recorded so far in the capture and moves the
\* index up by one, so no slot is written twice, and no slot is written
\* outside Recording (not during Transmitting, nor before the next
\* capture's Recording begins).
C15_WriteOnceInOrder ==
    [](C15_Filled) /\ [][C15_Step]_vars

C15_Witness ==
    /\ captureNo = 2
    /\ Phase = "Transmitting"
    /\ chunk > 0
    /\ currentSampleIndex = SAMPLES_PER_CAPTURE
    /\ imuReads = 2 * SAMPLES_PER_CAPTURE

\* the array the node recorded, as the host is to see it: every value
\* converted at line 247 and divided by 1000
NodeArray ==
    [i \in 1 .. SAMPLES_PER_CAPTURE
       |-> [k \in 1 .. 3
              |-> FromMilliG(ToMilliG((<<accelX, accelY, accelZ>>[k])[i - 1]))]]

\* the ReassemblyBuffer once chunks 0 .. TOTAL_CHUNKS - 1 have arrived in
\* sequence-number order (the run with hOrder = InOrder ends in it)
InOrderBuffer ==
    [s \in ExpectedSeqs |-> NodeChunk(s)]

InOrderResult ==
    Materialize(InOrderBuffer)

\* the sequence numbers that have reached the host
Delivered ==
    {OrderAt(hOrder, i) : i \in 0 .. hPos - 1} \ {hOmit}

C17_DuplicateIgnored ==
    /\ [][hDups' # hDups
            => /\ rxBuffer' = rxBuffer
               /\ UNCHANGED <<hState, hResult>>]_vars
    /\ []((hState = "Done" /\ hDups > 0)
            => /\ hResult.error = "none"
               /\ hResult.samples = NodeArray)

C17_Witness ==
    /\ hState = "Done"
    /\ hDups > 0
    /\ hOrder # InOrder
    /\ Len(hResult.samples) = SAMPLES_PER_CAPTURE

\* C18: isComplete is true exactly when every sequence number of
\* 0 .. TOTAL_CHUNKS - 1 has arrived; with any one of them missing it is
\* false and materialize fails with IncompleteCapture and gives no array.
C18_IncompleteDetected ==
    /\ IsComplete(rxBuffer) <=> (Delivered = ExpectedSeqs)
    /\ Delivered # ExpectedSeqs
         => Materialize(rxBuffer) = Failure("IncompleteCapture")
    /\ (hOmit # -1 /\ hPos = TOTAL_CHUNKS)
         => /\ Cardinality(Delivered) = TOTAL_CHUNKS - 1
            /\ ~IsComplete(rxBuffer)
    /\ hState = "Failed"
         => /\ hOmit # -1
            /\ hResult.error = "IncompleteCapture"
            /\ hResult.samples = <<>>
    /\ hState = "Done" => hOmit = -1

C18_Witness ==
    /\ hState = "Failed"
    /\ hOmit > 0
    /\ hOmit < TOTAL_CHUNKS - 1
    /\ hOrder = <<0, TOTAL_CHUNKS - 1>>
    /\ Cardinality(DOMAIN rxBuffer) = TOTAL_CHUNKS - 1

C20_TimeoutLeavesNothing ==
    /\ [][(hState = "Receiving" /\ hState' = "Failed")
            => /\ ~completeSeen
               /\ hResult' = Failure("Timeout")
               /\ rxBuffer' = <<>>]_vars
    /\ [][hAttempt' # hAttempt
            => /\ rxBuffer' = <<>>
               /\ hResult' = NoResult
               /\ hState' = "Receiving"
               /\ ~completeSeen'
               /\ hPos' = 0]_vars
    /\ []((hState = "Receiving" /\ ~completeSeen) => ENABLED SessTimeout)
    /\ [](hState = "Failed"
            => /\ hResult = Failure("Timeout")
               /\ rxBuffer = <<>>)
    /\ [](hState = "Done"
            => /\ hResult.error = "none"
               /\ hResult.samples = NodeArray)

C20_Witness ==
    /\ hAttempt = 2
    /\ hState = "Done"
    /\ hDiscarded > 0
    /\ hDiscarded < TOTAL_CHUNKS
    /\ hResult.samples = NodeArray
    /\ accelX = CaptureData(2, 1)

\* the buffer indices chunk s declares: count of them from s * K on
ChunkIndices(b) ==
    {b[1] * SAMPLES_PER_CHUNK + i - 1 : i \in 1 .. b[2]}

\* chunk b is chunk s of the capture just recorded: its header, its length,
\* and each of its int16 values, which is the conversion of the slot with
\* its index, a reading taken since the recording began
C23_Chunk(s, b) ==
    /\ b[1] = s
    /\ b[2] = Min(SAMPLES_PER_CHUNK, SAMPLES_PER_CAPTURE - s * SAMPLES_PER_CHUNK)
    /\ b[2] >= 1
    /\ Len(b) = 2 + 6 * b[2]
    /\ \A i \in 1 .. b[2] :
          LET index == s * SAMPLES_PER_CHUNK + i - 1
              slot == <<accelX[index], accelY[index], accelZ[index]>>
          IN  /\ index \in Slots
              /\ imuReads - SAMPLES_PER_CAPTURE + index + 1
                   > (captureNo - 1) * SAMPLES_PER_CAPTURE
              /\ slot = Reading(imuReads - SAMPLES_PER_CAPTURE + index + 1)
              /\ \A k \in 1 .. 3 :
                    DecodeInt16LE(b[6 * i + 2 * k - 5], b[6 * i + 2 * k - 4])
                      = ToMilliG(slot[k])

\* C23: chunk s carries, in index order, the samples with the buffer
\* indices s * K .. s * K + count - 1, each of them recorded in the capture
\* being transmitted; when Complete is written the chunks written carry
\* every index of 0 .. SAMPLES_PER_CAPTURE - 1 and no index twice.
C23_EverySampleOnce ==
    [][/\ WritesData
            => /\ ~captureInProgress
               /\ currentSampleIndex = SAMPLES_PER_CAPTURE
               /\ UNCHANGED <<accelX, accelY, accelZ, imuReads>>
               /\ C23_Chunk(Len(DataChunks), txLog'[Len(txLog')].val)
       /\ Writes(Status(STATUS_COMPLETE))
            => LET d == DataChunks
               IN  /\ Len(d) = TOTAL_CHUNKS
                   /\ UNION {ChunkIndices(d[j]) : j \in 1 .. Len(d)} = Slots
                   /\ \A j1, j2 \in 1 .. Len(d) :
                         j1 # j2
                           => ChunkIndices(d[j1]) \cap ChunkIndices(d[j2])
                                = {}]_vars

C23_Witness ==
    /\ pc = "p282"
    /\ captureNo = 2
    /\ imuReads = 2 * SAMPLES_PER_CAPTURE
    /\ Len(DataChunks) = TOTAL_CHUNKS
    /\ DataChunks[TOTAL_CHUNKS][2] = 2

\* the capture accepted as the n-th has been transmitted to its end: Complete
\* and then Ready were written and the node is Idle
CaptureFinished(n) ==
    /\ captureNo = n
    /\ Phase = "Idle"
    /\ pc = "loop"
    /\ Positions(Status(STATUS_COMPLETE)) # {}
    /\ txLog[Len(txLog)] = Status(STATUS_READY)

\* every accepted start command leads to Complete and Idle, and Recording
\* comes to its end
EveryCaptureTerminates ==
    /\ \A n \in 0 .. MaxCaptures - 1 :
          (captureRequested /\ captureNo = n) ~> CaptureFinished(n + 1)
    /\ (Phase = "Recording") ~> (Phase = "Transmitting")

\* the IMU does not leave the sketch asking for ever: a pass in which a
\* sample is due and accelerationAvailable() is true comes in the end
SensorDelivers ==
    WF_vars(PerformCapturePass(TRUE))

InFlight ==
    {"Starting", "Counting3", "Counting2", "Counting1", "Recording",
     "Receiving"}

\* a session that joins the status stream at whatever status it hears
\* first: Capturing takes it from Starting to Receiving
Mirror_JoinsMidStream(state, code) ==
    CASE state = "Starting" /\ code = STATUS_COUNTDOWN_3 -> "Counting3"
      [] state = "Starting" /\ code = STATUS_CAPTURING -> "Receiving"
      [] state = "Counting3" /\ code = STATUS_COUNTDOWN_2 -> "Counting2"
      [] state = "Counting2" /\ code = STATUS_COUNTDOWN_1 -> "Counting1"
      [] state = "Counting1" /\ code = STATUS_CAPTURING -> "Recording"
      [] state = "Recording" /\ code = STATUS_CAPTURING -> "Receiving"
      [] OTHER -> state

\* Idle -> Starting -> Counting(3,2,1) -> Recording -> Receiving: the state
\* a status leads to; a status the state does not expect leaves it alone
Mirror(state, code) ==
    CASE state = "Starting" /\ code = STATUS_COUNTDOWN_3 -> "Counting3"
      [] state = "Counting3" /\ code = STATUS_COUNTDOWN_2 -> "Counting2"
      [] state = "Counting2" /\ code = STATUS_COUNTDOWN_1 -> "Counting1"
      [] state = "Counting1" /\ code = STATUS_CAPTURING -> "Recording"
      [] state = "Recording" /\ code = STATUS_CAPTURING -> "Receiving"
      [] OTHER -> state

\* the captures whose first countdown status the sketch has written (line
\* 150): from it on a capture is on the status stream
Announced ==
    IF pc = "p147" THEN captureNo - 1 ELSE captureNo

\* the sketch has written a value the host has not handled (hPos is the
\* length of the log when the host last handled one)
Pending ==
    Len(txLog) # hPos

\* the notification of the latest write arrives: a status moves the
\* session along, a chunk is taken while Receiving, Complete is noted while
\* Receiving; with no session in flight or no link, nothing is heard
HostReceive ==
    /\ Pending
    /\ hPos' = Len(txLog)
    /\ LET e == txLog[Len(txLog)]
           heard == linkUp /\ hState \in InFlight
       IN  /\ hState' = IF heard /\ e.ch = "status"
                        THEN Mirror(hState, e.val[1])
                        ELSE hState
           /\ rxBuffer' = IF heard /\ e.ch = "data" /\ hState = "Receiving"
                          THEN OnChunk(rxBuffer, e.val)
                          ELSE rxBuffer
           /\ completeSeen' =
                (completeSeen
                   \/ (heard /\ hState = "Receiving"
                         /\ e = Status(STATUS_COMPLETE)))
    /\ UNCHANGED <<hOrder, hOmit, hDups, hLost, hResult, hAttempt,
                   hDiscarded, hBase>>
    /\ UNCHANGED <<nodeVars, envVars, histVars, encVars, packVars, convVars>>

\* runCapture: the previous session is torn down (its notifications have
\* been handled), the session starts from a clean buffer and writes the
\* start command (onCommandWritten, lines 135-142, runs in the sketch)
HostRunCapture ==
    /\ ~Pending
    /\ hState \notin InFlight
    /\ hAttempt < MaxAttempts
    /\ CommandHandler(CMD_START_CAPTURE)
    /\ hAttempt' = hAttempt + 1
    /\ hBase' = Announced
    /\ hState' = "Starting"
    /\ rxBuffer' = Discarded(rxBuffer)
    /\ completeSeen' = FALSE
    /\ hResult' = NoResult
    /\ UNCHANGED <<hOrder, hOmit, hPos, hDups, hLost, hDiscarded>>
    /\ UNCHANGED <<encVars, packVars, convVars>>

\* the session is abandoned: it is cancelled or its timeout passes, or the
\* link is gone; its buffer is discarded
HostAbandon ==
    /\ ~Pending
    /\ hState \in InFlight
    /\ hResult' = Failure(IF linkUp THEN "Timeout" ELSE "Disconnected")
    /\ hState' = "Failed"
    /\ rxBuffer' = Discarded(rxBuffer)
    /\ UNCHANGED <<hOrder, hOmit, hPos, hDups, hLost, completeSeen, hAttempt,
                   hDiscarded, hBase>>
    /\ UNCHANGED <<nodeVars, envVars, histVars, encVars, packVars, convVars>>

\* the host connects again once the session the link dropped under has
\* failed
HostConnect ==
    /\ hState \notin InFlight
    /\ Connect

\* the host has handled the latest write, resolved if it could, and failed
\* the session whose link is gone
Settled ==
    /\ ~Pending
    /\ ~(hState = "Receiving" /\ ResolveReady(rxBuffer, completeSeen))
    /\ ~(hState \in InFlight /\ ~linkUp)

\* the link drops mid-session
SessionDisconnect ==
    /\ hState \in InFlight
    /\ Disconnect

\* the sketch and the link move once the host has settled
NextLink ==
    \/ HostReceive
    \/ HostRunCapture
    \/ HostAbandon
    \/ SessResolve
    \/ HostConnect
    \/ Settled /\ SessionDisconnect
    \/ Settled /\ Tick
    \/ Settled /\ LoopExit
    \/ Settled /\ SketchStep
    \/ Settled /\ PerformCapturePass(TRUE)

SpecLink ==
    Init /\ [][NextLink]_vars

\* the capture on the status stream is one the node had announced before
\* runCapture was called: the capture of an earlier session
OldCapture ==
    captureNo <= hBase

====
